---- MODULE Spec2Model ----
(***************************************************************************)
(* Model of the windowed wgpu demo: the application driver EntryOn         *)
(* (src/main.rs) and the GPU resource factory GpuFactory                   *)
(* (src/GpuFatory.rs).                                                     *)
(*                                                                         *)
(* The driver is a winit ApplicationHandler.  Every handler runs to        *)
(* completion on the event-loop thread, so each handler is one action.     *)
(* `calls` is the list of window/GPU API calls the last handler made, in   *)
(* program order; `presented` is what the draw it submitted read (None     *)
(* when it submitted none); `last_event` is the event it handled and the   *)
(* driver's state when it arrived.                                         *)
(*                                                                         *)
(* The module `camera` (Camera, CameraController, CameraUniform) is        *)
(* declared by `mod camera;` but its file is not part of the sources; its  *)
(* operations are modelled from the design document (sections 4.1, 4.2).   *)
(***************************************************************************)
EXTENDS Integers, Sequences, FiniteSets, TLC

VARIABLES process, app_entry, last_event, calls, presented

vars == <<process, app_entry, last_event, calls, presented>>

(* ------------------------------ bounds --------------------------------- *)

\* Resize events carry dimensions 1..MaxDim.
MaxDim == 2
\* The eye is followed for at most MaxBackSteps net steps away from the target.
MaxBackSteps == 2
\* The eye's sideways offset is explored within -MaxSide..MaxSide.
MaxSide == 1

(* ------------------------- program constants --------------------------- *)

\* PhysicalSize::new(128, 128)
InnerSize == 128
\* CameraController::new(10.)
Speed == 10
\* eye: (0.0, 1.0, 2.0): the eye starts 2 units back from the target
InitDistance == 2
\* fovy: 45.0, znear: 0.1 (in tenths), zfar: 100.0
Fovy == 45
ZNearTenths == 1
ZFar == 100
\* render_pass.draw(0..6, 0..1)
DrawVertices == 6
DrawInstances == 1
\* render_pass.set_bind_group(1, &self.camera_bind_group, &[])
CameraSlot == 1

None == [tag |-> "None"]

Dims == 1..MaxDim

\* Formats an adapter may report first for a surface (get_default_config
\* takes the first supported format).
SurfaceFormats == {"Bgra8UnormSrgb", "Rgba8UnormSrgb"}

\* Outcomes of the fallible steps of initialisation (each is unwrapped).
StartupOutcomes ==
  {"ok", "create_window_failed", "create_surface_failed",
   "no_adapter", "device_failed", "no_default_config"}

\* Outcomes of Surface::get_current_texture.
AcquireOutcomes == {"ok", "Lost", "Outdated", "Timeout", "OutOfMemory"}

Keys == {"KeyW", "KeyS", "KeyA", "KeyD", "KeyQ"}
ElementStates == {"Pressed", "Released"}

Call(op, arg) == [op |-> op, arg |-> arg]

(* --------------------- camera module (from the design) ----------------- *)

RECURSIVE Gcd(_, _)
Gcd(a, b) == IF b = 0 THEN a ELSE Gcd(b, a % b)

\* width as f32 / height as f32: the quotient, kept as a reduced fraction.
Aspect(width, height) ==
  LET g == Gcd(width, height) IN <<width \div g, height \div g>>

\* Camera { eye, target, up, aspect, fovy, znear, zfar }
CameraInit(config) ==
  [eye    |-> [dist |-> InitDistance, side |-> 0],
   target |-> "origin",
   up     |-> "unit_y",
   aspect |-> Aspect(config.width, config.height),
   fovy   |-> Fovy,
   znear  |-> ZNearTenths,
   zfar   |-> ZFar]

\* Camera::build_view_projection_matrix: a pure function of the camera
\* (look-at composed with the perspective projection), kept symbolic.
build_view_projection_matrix(camera) ==
  [look_at     |-> <<camera.eye, camera.target, camera.up>>,
   perspective |-> <<camera.fovy, camera.aspect, camera.znear, camera.zfar>>]

\* CameraUniform::new() followed by update_view_proj(&mut self, camera)
update_view_proj(camera) ==
  [view_proj |-> build_view_projection_matrix(camera)]

\* CameraController::new(speed)
CameraControllerNew(speed) ==
  [speed |-> speed,
   is_forward_pressed  |-> FALSE,
   is_backward_pressed |-> FALSE,
   is_left_pressed     |-> FALSE,
   is_right_pressed    |-> FALSE]

\* CameraController::process_events: a recognised key sets its flag to
\* "pressed" and is handled; any other key is unhandled.
process_events(controller, event) ==
  LET pressed == (event.state = "Pressed") IN
  CASE event.key = "KeyW" ->
         [handled |-> TRUE,
          controller |-> [controller EXCEPT !.is_forward_pressed = pressed]]
    [] event.key = "KeyS" ->
         [handled |-> TRUE,
          controller |-> [controller EXCEPT !.is_backward_pressed = pressed]]
    [] event.key = "KeyA" ->
         [handled |-> TRUE,
          controller |-> [controller EXCEPT !.is_left_pressed = pressed]]
    [] event.key = "KeyD" ->
         [handled |-> TRUE,
          controller |-> [controller EXCEPT !.is_right_pressed = pressed]]
    [] OTHER -> [handled |-> FALSE, controller |-> controller]

\* CameraController::update_camera: forward only while the distance to the
\* target exceeds the step; backward, left and right unconditionally.
update_camera(controller, camera) ==
  LET d0 == camera.eye.dist
      d1 == IF controller.is_forward_pressed /\ d0 > controller.speed
              THEN d0 - controller.speed ELSE d0
      d2 == IF controller.is_backward_pressed
              THEN d1 + controller.speed ELSE d1
      s0 == camera.eye.side
      s1 == IF controller.is_right_pressed THEN s0 + 1 ELSE s0
      s2 == IF controller.is_left_pressed THEN s1 - 1 ELSE s1
  IN [camera EXCEPT !.eye = [dist |-> d2, side |-> s2]]

InBounds(camera) ==
  /\ camera.eye.dist <= InitDistance + MaxBackSteps * Speed
  /\ camera.eye.side \in -MaxSide..MaxSide

(* --------------------------- GfxState::new ----------------------------- *)

\* surface.get_default_config(&adapter, size.width, size.height)
get_default_config(format, width, height) ==
  [format |-> format, width |-> width, height |-> height]

\* GfxState::new: the driver state once every fallible step succeeded.
GfxStateNew(size, format) ==
  LET surface_config == get_default_config(format, size.width, size.height) IN
  [window            |-> [redraw_requested |-> FALSE],
   device            |-> "device",
   surface           |-> [configured |-> surface_config],
   queue             |-> "queue",
   surface_config    |-> surface_config,
   gpu_factory       |-> None,
   camera_controller |-> CameraControllerNew(Speed),
   camera            |-> CameraInit(surface_config)]

(* --------------------------- GpuFactory::new --------------------------- *)

\* TheFirstUniformBuffer { width, height }
TheFirstUniformBuffer(config) ==
  [width |-> config.width, height |-> config.height]

\* The colour target of the render pipeline.
PipelineTargetFormat == "Bgra8UnormSrgb"

GpuFactoryNew(app) ==
  LET camera == CameraInit(app.surface_config)
      camera_uniform == update_view_proj(camera)
  IN [tag               |-> "Some",
      shader            |-> <<"sky.wgsl">>,
      uniform_buffer    |-> <<TheFirstUniformBuffer(app.surface_config)>>,
      bind_group_layout |-> <<[binding |-> 0, visibility |-> "FRAGMENT"]>>,
      bind_group        |-> <<[binding |-> 0, buffer |-> "uniform_buffer"]>>,
      camera_uniform    |-> camera_uniform,
      camera_buffer     |-> camera_uniform,
      camera_bind_group |-> [binding |-> 0, buffer |-> "camera_buffer"],
      pipeline_layout   |-> <<<<"bind_group_layout", "camera_bind_group_layout">>>>,
      pipeline          |-> <<[format   |-> PipelineTargetFormat,
                               topology |-> "TriangleList",
                               vertex   |-> "display_vs",
                               fragment |-> "display_fs"]>>,
      vertex_buffer     |-> <<>>,
      index_buffer      |-> <<>>]

(* --------------------------- GpuFactory::render ------------------------ *)

\* What a submitted draw reads: the acquired image (as the surface is
\* configured), the pipeline's target, the buffers behind slots 0 and 1.
Frame(self, app) ==
  [width           |-> app.surface.configured.width,
   height          |-> app.surface.configured.height,
   format          |-> app.surface.configured.format,
   pipeline_format |-> self.pipeline[Len(self.pipeline)].format,
   screen_size     |-> self.uniform_buffer[1],
   camera          |-> self.camera_buffer]

\* The render pass recorded between begin_render_pass and its drop.
RenderPass(self) ==
  <<Call("begin_render_pass", "Clear(BLACK)")>>
  \o [i \in 1..Len(self.pipeline) |-> Call("set_pipeline", i - 1)]
  \o [i \in 1..Len(self.bind_group) |->
        Call("set_bind_group", <<i - 1, self.bind_group[i].buffer>>)]
  \o <<Call("set_bind_group", <<CameraSlot, self.camera_bind_group.buffer>>),
       Call("draw", <<0, DrawVertices, 0, DrawInstances>>)>>

\* Variant: a failed acquisition reconfigures the surface and acquires again.
render_recovering(self, app, acquire) ==
  LET head == <<Call("create_command_encoder", "render frame"),
                Call("get_current_texture", acquire)>>
      again == IF acquire = "ok" THEN <<>>
               ELSE <<Call("configure", app.surface_config),
                      Call("get_current_texture", "ok")>>
  IN [calls |-> head \o again
                \o <<Call("create_view", "frame")>>
                \o RenderPass(self)
                \o <<Call("finish", "encoder"),
                     Call("submit", "command_buffer"),
                     Call("present", "frame")>>,
      panicked |-> FALSE,
      frame    |-> Frame(self, app)]

\* Variant: the frame is presented before the command buffer is submitted.
render_presents_first(self, app, acquire) ==
  LET head == <<Call("create_command_encoder", "render frame"),
                Call("get_current_texture", acquire)>>
  IN IF acquire # "ok"
       THEN [calls |-> head, panicked |-> TRUE, frame |-> None]
       ELSE [calls |-> head
                       \o <<Call("create_view", "frame")>>
                       \o RenderPass(self)
                       \o <<Call("finish", "encoder"),
                            Call("present", "frame"),
                            Call("submit", "command_buffer")>>,
             panicked |-> FALSE,
             frame    |-> Frame(self, app)]

\* GpuFactory::render(&self, app); `acquire` is the outcome of
\* get_current_texture, which is unwrapped.
render(self, app, acquire) ==
  LET head == <<Call("create_command_encoder", "render frame"),
                Call("get_current_texture", acquire)>>
  IN IF acquire # "ok"
       THEN [calls |-> head, panicked |-> TRUE, frame |-> None]
       ELSE [calls |-> head
                       \o <<Call("create_view", "frame")>>
                       \o RenderPass(self)
                       \o <<Call("finish", "encoder"),
                            Call("submit", "command_buffer"),
                            Call("present", "frame")>>,
             panicked |-> FALSE,
             frame    |-> Frame(self, app)]

(* ------------------------ EntryOn::window_event ------------------------ *)

\* The result of a handler: the driver state it leaves, the calls it made,
\* whether it panicked, and the frame it presented (None when it did not).
Outcome(entry, made, panicked, frame) ==
  [entry |-> entry, calls |-> made, panicked |-> panicked, frame |-> frame]

Loading == [tag |-> "Loading"]
Ready(app) == [tag |-> "Ready", app |-> app]

\* Variant: an event that arrives before initialisation is treated as fatal.
NotReadyPanics(entry) == [entry |-> entry, calls |-> <<>>, panicked |-> TRUE,
                          frame |-> None]

\* else { println!("Not ready yet! in Loading") }
NotReady(entry) == Outcome(entry, <<>>, FALSE, None)

\* Variant: the new size is stored but the surface is not reconfigured.
on_resized_no_configure(app, size) ==
  LET config == [app.surface_config EXCEPT !.width = size.width,
                                           !.height = size.height]
      app1 == [app EXCEPT !.surface_config = config,
                          !.window.redraw_requested = TRUE]
  IN Outcome(Ready(app1), <<Call("request_redraw", "window")>>, FALSE, None)

\* Variant: the resize also rewrites the screen-size uniform buffer.
on_resized_rewrites_uniform(app, size) ==
  LET config == [app.surface_config EXCEPT !.width = size.width,
                                           !.height = size.height]
      app1 == [app EXCEPT !.surface_config = config,
                          !.surface.configured = config,
                          !.window.redraw_requested = TRUE,
                          !.gpu_factory.uniform_buffer =
                              <<TheFirstUniformBuffer(config)>>]
  IN Outcome(Ready(app1),
             <<Call("configure", config), Call("request_redraw", "window")>>,
             FALSE, None)

\* WindowEvent::Resized(size)
on_resized(app, size) ==
  LET config == [app.surface_config EXCEPT !.width = size.width,
                                           !.height = size.height]
      app1 == [app EXCEPT !.surface_config = config,
                          !.surface.configured = config,
                          !.window.redraw_requested = TRUE]
  IN Outcome(Ready(app1),
             <<Call("configure", config), Call("request_redraw", "window")>>,
             FALSE, None)

\* WindowEvent::RedrawRequested
on_redraw_requested(app, acquire) ==
  LET camera == update_camera(app.camera_controller, app.camera)
      app1 == [app EXCEPT !.camera = camera,
                          !.window.redraw_requested = FALSE]
      head == <<Call("update_camera", camera.eye)>>
  IN IF app.gpu_factory = None
       THEN Outcome(Ready(app1), head, TRUE, None)
       ELSE LET uniform == update_view_proj(camera)
                app2 == [app1 EXCEPT !.gpu_factory.camera_uniform = uniform]
                r == render(app2.gpu_factory, app2, acquire)
            IN Outcome(Ready(app2),
                       head \o <<Call("update_view_proj", uniform)>> \o r.calls,
                       r.panicked, r.frame)

\* Variant: a redraw is requested whatever the controller reports.
on_keyboard_input_always_redraws(app, event) ==
  LET r == process_events(app.camera_controller, event)
      app1 == [app EXCEPT !.camera_controller = r.controller,
                          !.window.redraw_requested = TRUE]
  IN Outcome(Ready(app1),
             <<Call("process_events", event.key),
               Call("request_redraw", "window")>>,
             FALSE, None)

\* WindowEvent::KeyboardInput { event, .. }
on_keyboard_input(app, event) ==
  LET r == process_events(app.camera_controller, event)
      app1 == [app EXCEPT !.camera_controller = r.controller]
  IN IF r.handled
       THEN Outcome(Ready([app1 EXCEPT !.window.redraw_requested = TRUE]),
                    <<Call("process_events", event.key),
                      Call("request_redraw", "window")>>,
                    FALSE, None)
       ELSE Outcome(Ready(app1), <<Call("process_events", event.key)>>,
                    FALSE, None)

\* WindowEvent::CloseRequested, and the `_ => {}` arm.
on_ignored(app) == Outcome(Ready(app), <<>>, FALSE, None)

\* EntryOn::window_event(&mut self, _, _, event)
window_event(entry, event) ==
  IF entry.tag = "Ready"
    THEN CASE event.kind = "Resized" -> on_resized(entry.app, event.size)
           [] event.kind = "RedrawRequested" ->
                on_redraw_requested(entry.app, event.acquire)
           [] event.kind = "KeyboardInput" ->
                on_keyboard_input(entry.app, event.input)
           [] OTHER -> on_ignored(entry.app)
    ELSE NotReady(entry)

(* --------------------------- EntryOn::resumed -------------------------- *)

\* Variant: the driver is made Ready with the factory still None.
resumed_without_factory(size, format) == Ready(GfxStateNew(size, format))

\* The body of the block_on: GfxState::new, then the factory is stored.
resumed_ready(size, format) ==
  LET gfx_state == GfxStateNew(size, format) IN
  Ready([gfx_state EXCEPT !.gpu_factory = GpuFactoryNew(gfx_state)])

\* window.inner_size() of a window created with_inner_size(128, 128)
inner_size == [width |-> InnerSize, height |-> InnerSize]

\* EntryOn::resumed(&mut self, event_loop); `env` is what the platform
\* provides: the surface format, and whether each fallible step succeeds.
resumed(entry, env) ==
  IF entry.tag = "Loading"
    THEN IF env.startup = "ok"
           THEN Outcome(resumed_ready(inner_size, env.format),
                        <<Call("create_window", inner_size),
                          Call("configure",
                               get_default_config(env.format, inner_size.width,
                                                  inner_size.height))>>,
                        FALSE, None)
           ELSE Outcome(entry, <<>>, TRUE, None)
    ELSE Outcome(entry, <<>>, FALSE, None)

(* ------------------------------ the system ----------------------------- *)

Sizes == [width : Dims, height : Dims]

Envs == [startup : StartupOutcomes, format : SurfaceFormats]

Init ==
  /\ process = "running"
  /\ app_entry = Loading
  /\ last_event = [kind |-> "None"]
  /\ calls = <<>>
  /\ presented = None

\* A handler ran to completion (or to its panic) on the event-loop thread.
Apply(event, r) ==
  /\ process = "running"
  /\ r.entry.tag = "Ready" => InBounds(r.entry.app.camera)
  /\ process' = IF r.panicked THEN "panicked" ELSE "running"
  /\ app_entry' = r.entry
  /\ last_event' = [event EXCEPT !.was = app_entry.tag]
  /\ calls' = r.calls
  /\ presented' = r.frame

Event(kind) == [kind |-> kind, was |-> "None"]

Resumed ==
  \E env \in Envs :
    Apply(Event("Resumed"), resumed(app_entry, env))

Resized ==
  \E size \in Sizes :
    LET event == [kind |-> "Resized", was |-> "None", size |-> size]
    IN Apply(event, window_event(app_entry, event))

RedrawRequested ==
  \E acquire \in AcquireOutcomes :
    LET event == [kind |-> "RedrawRequested", was |-> "None",
                  acquire |-> acquire]
    IN Apply(event, window_event(app_entry, event))

KeyboardInput ==
  \E key \in Keys, state \in ElementStates :
    LET event == [kind |-> "KeyboardInput", was |-> "None",
                  input |-> [key |-> key, state |-> state]]
    IN Apply(event, window_event(app_entry, event))

CloseRequested ==
  Apply(Event("CloseRequested"), window_event(app_entry, Event("CloseRequested")))

OtherEvent ==
  Apply(Event("Other"), window_event(app_entry, Event("Other")))

Next ==
  \/ Resumed
  \/ Resized
  \/ RedrawRequested
  \/ KeyboardInput
  \/ CloseRequested
  \/ OtherEvent

Spec == Init /\ [][Next]_vars

(* ------------------------------ properties ----------------------------- *)

WindowEventKinds ==
  {"Resized", "RedrawRequested", "KeyboardInput", "CloseRequested", "Other"}

IsReady == app_entry.tag = "Ready"

\* The last handler was window_event for `kind`, entered in state `was`.
Handled(kind, was) == last_event.kind = kind /\ last_event.was = was

Ops == {calls[i].op : i \in 1..Len(calls)}

CountOp(op) == Cardinality({i \in 1..Len(calls) : calls[i].op = op})

GpuWorkOps == {"begin_render_pass", "draw", "submit", "present"}

RedrawOk == Handled("RedrawRequested", "Ready") /\ last_event.acquire = "ok"

RedrawFailed == Handled("RedrawRequested", "Ready") /\ last_event.acquire # "ok"

\* C1: while the driver is Loading every window event is a no-op: the driver
\* stays Loading, nothing panics, no redraw is requested and no GPU work is
\* recorded or submitted.
C1_LoadingIgnoresEvents ==
  (last_event.kind \in WindowEventKinds /\ last_event.was = "Loading")
    => /\ app_entry = Loading
       /\ process = "running"
       /\ calls = <<>>
       /\ presented = None

C1_Witness ==
  Handled("RedrawRequested", "Loading") /\ app_entry = Loading

C2_ReadyState ==
  /\ IsReady =>
       /\ app_entry.app.gpu_factory # None
       /\ app_entry.app.gpu_factory.tag = "Some"
       /\ app_entry.app.device = "device"
       /\ app_entry.app.queue = "queue"
       /\ app_entry.app.surface.configured.format \in SurfaceFormats
       /\ app_entry.app.camera.fovy = Fovy
       /\ app_entry.app.camera_controller.speed = Speed
  /\ RedrawOk => process = "running" /\ presented # None

C2_ReadyOnlyByResumed ==
  (app_entry.tag = "Loading" /\ app_entry'.tag = "Ready")
    => last_event'.kind = "Resumed"

\* C2: the driver becomes Ready only in the resumed handler; in every Ready
\* state device, queue, surface, camera, controller and factory are there,
\* so a redraw whose acquisition succeeds never panics on a missing factory.
C2_ReadyHasFactory == [](C2_ReadyState) /\ [][C2_ReadyOnlyByResumed]_vars

C2_Witness == RedrawOk /\ IsReady

\* C3: the draw submitted by a redraw reads a camera buffer holding the
\* view-projection of the camera as the controller left it at that redraw
\* (advance, recompute, upload, then render).
C3_DrawReadsCurrentCamera ==
  RedrawOk =>
    /\ calls[1].op = "update_camera"
    /\ calls[2].op = "update_view_proj"
    /\ presented.camera.view_proj
         = build_view_projection_matrix(app_entry.app.camera)

\* C4: after Resized(W, H) in Ready the stored configuration is W x H, the
\* surface is configured with it and a redraw is requested, before any
\* render; every render draws to an image of the stored dimensions.
C4_ResizeReconfigures ==
  /\ Handled("Resized", "Ready") =>
       /\ IsReady
       /\ app_entry.app.surface_config.width = last_event.size.width
       /\ app_entry.app.surface_config.height = last_event.size.height
       /\ app_entry.app.surface.configured = app_entry.app.surface_config
       /\ app_entry.app.window.redraw_requested
       /\ calls = <<Call("configure", app_entry.app.surface_config),
                    Call("request_redraw", "window")>>
       /\ presented = None
  /\ RedrawOk =>
       /\ presented.width = app_entry.app.surface_config.width
       /\ presented.height = app_entry.app.surface_config.height

C4_Witness ==
  /\ RedrawOk
  /\ presented.width = 1
  /\ presented.height = 2

\* C5: in Ready the camera's aspect is width / height of the stored surface
\* configuration.
C5_AspectFollowsConfig ==
  IsReady =>
    app_entry.app.camera.aspect
      = Aspect(app_entry.app.surface_config.width,
               app_entry.app.surface_config.height)

\* C6: a failed acquisition is fatal: the process ends at the acquisition,
\* which is tried once, with no reconfiguration, no submission and no
\* presentation.
C6_AcquireFailureFatal ==
  RedrawFailed =>
    /\ process = "panicked"
    /\ calls[Len(calls)].op = "get_current_texture"
    /\ CountOp("get_current_texture") = 1
    /\ Ops \cap {"configure", "submit", "present", "draw"} = {}
    /\ presented = None

C6_Witness == RedrawFailed /\ last_event.acquire = "Outdated"

ExpectedRenderCalls ==
  <<Call("create_command_encoder", "render frame"),
    Call("get_current_texture", "ok"),
    Call("create_view", "frame"),
    Call("begin_render_pass", "Clear(BLACK)"),
    Call("set_pipeline", 0),
    Call("set_bind_group", <<0, "uniform_buffer">>),
    Call("set_bind_group", <<1, "camera_buffer">>),
    Call("draw", <<0, 6, 0, 1>>),
    Call("finish", "encoder"),
    Call("submit", "command_buffer"),
    Call("present", "frame")>>

\* C7: a redraw in Ready whose acquisition succeeds records one render pass
\* (pipeline, bind group 0 at slot 0, camera bind group at slot 1, one draw
\* of 6 vertices and 1 instance), then submits once, then presents once; no
\* other handler records or submits GPU work.
C7_OneRenderPassPerRedraw ==
  /\ RedrawOk =>
       /\ Len(calls) = 2 + Len(ExpectedRenderCalls)
       /\ SubSeq(calls, 3, Len(calls)) = ExpectedRenderCalls
  /\ ~RedrawOk => (Ops \cap GpuWorkOps = {} /\ presented = None)

C7_Witness == RedrawOk /\ CountOp("submit") = 1 /\ CountOp("present") = 1

C8_KeyStep ==
  (IsReady /\ last_event'.kind = "KeyboardInput") =>
    LET r == process_events(app_entry.app.camera_controller, last_event'.input)
    IN /\ app_entry'.tag = "Ready"
       /\ app_entry'.app.camera_controller = r.controller
       /\ calls'[1] = Call("process_events", last_event'.input.key)
       /\ (\E i \in 1..Len(calls') : calls'[i].op = "request_redraw")
            <=> r.handled
       /\ app_entry'.app.window.redraw_requested
            = (r.handled \/ app_entry.app.window.redraw_requested)
       /\ \A i \in 1..Len(calls') : calls'[i].op \notin GpuWorkOps
       /\ presented' = None

\* C8: keyboard input in Ready goes to the controller, and a redraw is
\* requested exactly when the controller reports it handled; an unhandled
\* key requests no redraw and submits no GPU work.
C8_RedrawIffHandled == [][C8_KeyStep]_vars

C8_Witness ==
  /\ Handled("KeyboardInput", "Ready")
  /\ last_event.input.key = "KeyQ"
  /\ ~app_entry.app.window.redraw_requested

\* C9: the pipeline's colour target has the format of the configured
\* surface, whatever format initialisation negotiated.
C9_PipelineFormatMatchesSurface ==
  /\ IsReady =>
       \A i \in 1..Len(app_entry.app.gpu_factory.pipeline) :
         app_entry.app.gpu_factory.pipeline[i].format
           = app_entry.app.surface_config.format
  /\ RedrawOk => presented.pipeline_format = presented.format

C10_UniformState ==
  /\ (Handled("Resumed", "Loading") /\ IsReady) =>
       app_entry.app.gpu_factory.uniform_buffer
         = <<TheFirstUniformBuffer(app_entry.app.surface_config)>>
  /\ IsReady =>
       app_entry.app.gpu_factory.uniform_buffer = <<inner_size>>
  /\ (Handled("Resized", "Ready") /\ last_event.size # inner_size) =>
       app_entry.app.gpu_factory.uniform_buffer[1]
         # TheFirstUniformBuffer(app_entry.app.surface_config)

C10_FactoryStep ==
  (IsReady /\ app_entry'.tag = "Ready") =>
    app_entry'.app.gpu_factory
      = [app_entry.app.gpu_factory EXCEPT
           !.camera_uniform = app_entry'.app.gpu_factory.camera_uniform]

\* C10: the screen-size uniform holds the surface size of factory
\* construction and no event changes it, so after a resize to other
\* dimensions it differs from the stored configuration; the factory changes
\* in nothing but its camera uniform.
C10_ScreenUniformFrozen == [](C10_UniformState) /\ [][C10_FactoryStep]_vars

C10_Witness ==
  /\ RedrawOk
  /\ presented.screen_size # TheFirstUniformBuffer(app_entry.app.surface_config)
  /\ app_entry.app.gpu_factory.camera_uniform
       # app_entry.app.gpu_factory.camera_buffer

====
